---- MODULE Spec2Model ----
(***************************************************************************)
(* Context-assembly pipeline of the conversational backend.                *)
(*                                                                         *)
(* A text is a sequence of segments; a segment [kind, id, n] stands for n  *)
(* characters.  Only the length of a text and the order of its segments    *)
(* matter to the code modelled here.  A message is [role, content].        *)
(***************************************************************************)
EXTENDS Integers, Sequences, FiniteSets, TLC

(***************************************************************************)
(* Program constants.                                                      *)
(***************************************************************************)
MAX_CONTEXT_TOKENS == 4000
max_messages == 20
ResponseReserve == 100
MessageOverhead == 5
CharsPerToken == 4
ContextHeaderLen == 296

(***************************************************************************)
(* Bounds of the explored inputs.                                          *)
(***************************************************************************)
MaxHistory == 22
MaxRich == 3
MaxSpecial == 2

\* Optional[...] arguments: None, or a value
None == [some |-> FALSE, val |-> <<>>]
Some(x) == [some |-> TRUE, val |-> x]

Seg(kind, id, n) == [kind |-> kind, id |-> id, n |-> n]
Msg(role, content) == [role |-> role, content |-> content]

RECURSIVE SumLen(_, _)
SumLen(text, k) == IF k = 0 THEN 0 ELSE SumLen(text, k - 1) + text[k].n
\* len(text)
StrLen(text) == SumLen(text, Len(text))

\* tests that take every value other than None as given
TruthyNotNone(x) == x.some
ListTruthyNotNone(x) == x.some

\* truthiness of a str / list argument: None and the empty value are falsy
Truthy(x) == x.some /\ StrLen(x.val) > 0
ListTruthy(x) == x.some /\ Len(x.val) > 0

\* LLMService.count_tokens
count_tokens(text) == StrLen(text) \div CharsPerToken

\* a window that keeps the first maxm messages instead of the last
apply_sliding_window_head(messages, maxm) ==
    IF Len(messages) <= maxm
    THEN messages
    ELSE SubSeq(messages, 1, maxm)

\* ContextManager._apply_sliding_window
apply_sliding_window(messages, maxm) ==
    IF Len(messages) <= maxm
    THEN messages
    ELSE SubSeq(messages, Len(messages) - maxm + 1, Len(messages))

\* an estimate that takes the remainder of the division instead of the quotient
RECURSIVE EstimateLoopMod(_, _, _)
EstimateLoopMod(messages, k, total) ==
    IF k > Len(messages) THEN total
    ELSE EstimateLoopMod(messages, k + 1,
                         total + (StrLen(messages[k].content) % CharsPerToken)
                               + MessageOverhead)

\* ContextManager._estimate_total_tokens: the loop, message by message
RECURSIVE EstimateLoop(_, _, _)
EstimateLoop(messages, k, total) ==
    IF k > Len(messages) THEN total
    ELSE EstimateLoop(messages, k + 1,
                      total + (StrLen(messages[k].content) \div CharsPerToken)
                            + MessageOverhead)
estimate_total_tokens(messages) == EstimateLoop(messages, 1, 0)

\* indices of the messages of a list that satisfy / do not satisfy role = system
RECURSIVE IdxWhere(_, _, _)
IdxWhere(messages, k, sys) ==
    IF k > Len(messages) THEN <<>>
    ELSE (IF (messages[k].role = "system") = sys THEN <<k>> ELSE <<>>)
         \o IdxWhere(messages, k + 1, sys)
system_msgs(messages) == IdxWhere(messages, 1, TRUE)
conversation_msgs(messages) == IdxWhere(messages, 1, FALSE)

Pick(messages, idx) == [i \in 1..Len(idx) |-> messages[idx[i]]]

\* a loop that skips a message that does not fit and goes on to older ones
RECURSIVE TruncateLoopSkip(_, _, _, _, _, _)
TruncateLoopSkip(messages, conv, k, acc, current_tokens, available_tokens) ==
    IF k = 0 THEN acc
    ELSE LET msg_tokens ==
                 (StrLen(messages[conv[k]].content) \div CharsPerToken) + MessageOverhead
         IN  IF current_tokens + msg_tokens <= available_tokens
             THEN TruncateLoopSkip(messages, conv, k - 1, <<conv[k]>> \o acc,
                                   current_tokens + msg_tokens, available_tokens)
             ELSE TruncateLoopSkip(messages, conv, k - 1, acc,
                                   current_tokens, available_tokens)

\* the for-loop of _truncate_context over reversed(conversation_msgs):
\* k is the position in conv of the message looked at, acc the indices kept
RECURSIVE TruncateLoop(_, _, _, _, _, _)
TruncateLoop(messages, conv, k, acc, current_tokens, available_tokens) ==
    IF k = 0 THEN acc
    ELSE LET msg_tokens == estimate_total_tokens(<<messages[conv[k]]>>)
         IN  IF current_tokens + msg_tokens <= available_tokens
             THEN TruncateLoop(messages, conv, k - 1, <<conv[k]>> \o acc,
                               current_tokens + msg_tokens, available_tokens)
             ELSE acc

\* a truncation that leaves no room for the response
truncate_context_no_reserve(messages) ==
    IF Len(messages) = 0
    THEN [raised |-> FALSE, kept |-> <<>>]
    ELSE LET sys == system_msgs(messages)
             conv == conversation_msgs(messages)
             system_tokens == estimate_total_tokens(Pick(messages, sys))
             available_tokens == MAX_CONTEXT_TOKENS - system_tokens
             truncated_conversation ==
                 TruncateLoop(messages, conv, Len(conv), <<>>, 0, available_tokens)
         IN  IF Len(truncated_conversation) = 0
             THEN [raised |-> TRUE, kept |-> <<>>]
             ELSE [raised |-> FALSE, kept |-> sys \o truncated_conversation]

\* a truncation that returns the system messages alone instead of raising
truncate_context_silent(messages) ==
    IF Len(messages) = 0
    THEN [raised |-> FALSE, kept |-> <<>>]
    ELSE LET sys == system_msgs(messages)
             conv == conversation_msgs(messages)
             system_tokens == estimate_total_tokens(Pick(messages, sys))
             available_tokens == MAX_CONTEXT_TOKENS - system_tokens - ResponseReserve
             truncated_conversation ==
                 TruncateLoop(messages, conv, Len(conv), <<>>, 0, available_tokens)
         IN  [raised |-> FALSE, kept |-> sys \o truncated_conversation]

\* ContextManager._truncate_context; kept = indices into messages, in output order
truncate_context(messages) ==
    IF Len(messages) = 0
    THEN [raised |-> FALSE, kept |-> <<>>]
    ELSE LET sys == system_msgs(messages)
             conv == conversation_msgs(messages)
             system_tokens == estimate_total_tokens(Pick(messages, sys))
             available_tokens == MAX_CONTEXT_TOKENS - system_tokens - ResponseReserve
             truncated_conversation ==
                 TruncateLoop(messages, conv, Len(conv), <<>>, 0, available_tokens)
         IN  IF Len(truncated_conversation) = 0
             THEN [raised |-> TRUE, kept |-> <<>>]
             ELSE [raised |-> FALSE, kept |-> sys \o truncated_conversation]

\* len(str(n)) for the label numbers that occur
Digits(n) == IF n < 10 THEN 1 ELSE IF n < 100 THEN 2 ELSE 3

\* labels numbered from 0: f"[Context {i}]"
RECURSIVE ChunksTextZeroBased(_, _)
ChunksTextZeroBased(chunks, i) ==
    IF i >= Len(chunks) THEN <<>>
    ELSE (IF i > 0 THEN <<Seg("sep", 0, 2)>> ELSE <<>>)
         \o <<Seg("label", i, 10 + Digits(i)), Seg("nl", 0, 1)>>
         \o chunks[i + 1]
         \o ChunksTextZeroBased(chunks, i + 1)

\* "\n\n".join(f"[Context {i+1}]\n{chunk}" for i, chunk in enumerate(chunks))
RECURSIVE ChunksText(_, _)
ChunksText(chunks, i) ==
    IF i >= Len(chunks) THEN <<>>
    ELSE (IF i > 0 THEN <<Seg("sep", 0, 2)>> ELSE <<>>)
         \o <<Seg("label", i + 1, 10 + Digits(i + 1)), Seg("nl", 0, 1)>>
         \o chunks[i + 1]
         \o ChunksText(chunks, i + 1)

context_content(chunks) ==
    <<Seg("header", 0, ContextHeaderLen)>> \o ChunksText(chunks, 0)

\* the sequence built by prepare_context before the token check
Assemble(messages, system_prompt, retrieved_chunks) ==
    (IF Truthy(system_prompt) THEN <<Msg("system", system_prompt.val)>> ELSE <<>>)
    \o (IF ListTruthy(retrieved_chunks)
        THEN <<Msg("system", context_content(retrieved_chunks.val))>> ELSE <<>>)
    \o apply_sliding_window(messages, max_messages)

Ident(n) == [i \in 1..n |-> i]

\* the token check of prepare_context: total_tokens > self.max_context_tokens
\* (OverBudgetGe: the comparison taken as >=)
OverBudgetGe(total_tokens) == total_tokens >= MAX_CONTEXT_TOKENS
OverBudget(total_tokens) == total_tokens > MAX_CONTEXT_TOKENS

\* ContextManager.prepare_context
prepare_context(messages, system_prompt, retrieved_chunks, rag) ==
    LET context_messages == Assemble(messages, system_prompt, retrieved_chunks)
        warned == ~ListTruthy(retrieved_chunks) /\ rag
        total_tokens == estimate_total_tokens(context_messages)
    IN  IF OverBudget(total_tokens)
        THEN LET t == truncate_context(context_messages)
             IN  IF t.raised
                 THEN [status |-> "raised", messages |-> <<>>, kept |-> <<>>,
                       truncated |-> TRUE, warned |-> warned]
                 ELSE [status |-> "returned",
                       messages |-> Pick(context_messages, t.kept),
                       kept |-> t.kept, truncated |-> TRUE, warned |-> warned]
        ELSE [status |-> "returned", messages |-> context_messages,
              kept |-> Ident(Len(context_messages)),
              truncated |-> FALSE, warned |-> warned]

(***************************************************************************)
(* Inputs explored.                                                        *)
(***************************************************************************)
\* system directives: none, the empty string, the open-chat directive, one
\* that leaves little room and one larger than the budget
PromptLens == {0, 182, 3925, 16003}
Prompts ==
    {None} \cup {Some(IF n = 0 THEN <<>> ELSE <<Seg("prompt", n, n)>>) : n \in PromptLens}

Chunk(c, n) == <<Seg("chunk", c, n)>>
ChunkLists ==
    { None, Some(<<>>),
      Some(<<Chunk(1, 1), Chunk(2, 1), Chunk(3, 1)>>),
      Some(<<Chunk(1, 37), Chunk(1, 37)>>) }

Kinds == {"plain", "big", "system"}

\* the message number k of a history, of the given kind
NewMessage(kind, k) ==
    CASE kind = "plain" ->
             Msg(IF k % 2 = 1 THEN "user" ELSE "assistant",
                 <<Seg("text", k, 17 + (k % 7))>>)
      [] kind = "big" -> Msg("user", <<Seg("text", k, 12000 + (k % 3))>>)
      [] kind = "system" -> Msg("system", <<Seg("text", k, 9 + k)>>)

IsSpecial(m) == m.role = "system" \/ StrLen(m.content) > 1000
RECURSIVE Specials(_, _)
Specials(h, k) == IF k = 0 THEN 0
                  ELSE Specials(h, k - 1) + (IF IsSpecial(h[k]) THEN 1 ELSE 0)

(***************************************************************************)
(* Retriever: RAGService.retrieve_relevant_chunks over the chunk store.    *)
(***************************************************************************)
MAX_RETRIEVAL_CHUNKS == 5
FallbackPerDoc == 3

MaxDocs == 2
Docs == 1..MaxDocs
\* the numbers of chunks process_document stores for a document
ChunkCounts == {1, 4}

\* s[:n]
Take(s, n) == IF Len(s) <= n THEN s ELSE SubSeq(s, 1, n)

\* the row of document_chunks with chunk_index i of document d
ChunkRow(d, i) ==
    [document_id |-> d, chunk_index |-> i, chunk_text |-> Chunk(100 * d + i, 40 + i)]

\* DocumentRepository.get_chunks_by_document: ORDER BY chunk_index ASC
get_chunks_by_document(nch, d) == [k \in 1..nch[d] |-> ChunkRow(d, k - 1)]

\* what a MATCH ... AGAINST or LIKE condition selects, by pattern
Matches(pattern, row) ==
    CASE pattern = "all" -> TRUE
      [] pattern = "even" -> row.chunk_index % 2 = 0
      [] OTHER -> FALSE

\* rows of the documents scan that satisfy the pattern, from chunk_index i and
\* position k of scan on, ORDER BY chunk_index ASC
RECURSIVE RowsFrom(_, _, _, _, _)
RowsFrom(nch, scan, pattern, i, k) ==
    IF \A d \in DOMAIN nch : i >= nch[d] THEN <<>>
    ELSE IF k > Len(scan) THEN RowsFrom(nch, scan, pattern, i + 1, 1)
    ELSE (IF i < nch[scan[k]] /\ Matches(pattern, ChunkRow(scan[k], i))
          THEN <<ChunkRow(scan[k], i)>> ELSE <<>>)
         \o RowsFrom(nch, scan, pattern, i, k + 1)

\* one SELECT ... ORDER BY chunk_index ASC LIMIT limit of search_chunks; a
\* backend that does not honour LIMIT returns every selected row
SelectChunks(nch, ids, pattern, limit, env) ==
    LET rows == RowsFrom(nch, ids, pattern, 0, 1)
    IN  IF env.honoursLimit THEN Take(rows, limit) ELSE rows

\* DocumentRepository.search_chunks: FULLTEXT first, LIKE when it fails or
\* finds nothing; raised = the LIKE query failed
search_chunks(nch, doc_db_ids, limit, env) ==
    IF Len(doc_db_ids) = 0
    THEN [raised |-> FALSE, rows |-> <<>>]
    ELSE LET fulltext == IF env.ft = "error" THEN <<>>
                         ELSE SelectChunks(nch, doc_db_ids, env.ft, limit, env)
         IN  IF Len(fulltext) > 0
             THEN [raised |-> FALSE, rows |-> fulltext]
             ELSE IF env.fail = "search"
             THEN [raised |-> TRUE, rows |-> <<>>]
             ELSE [raised |-> FALSE,
                   rows |-> SelectChunks(nch, doc_db_ids,
                                IF env.blank THEN "all" ELSE env.like, limit, env)]

ChunkTexts(rows) == [k \in 1..Len(rows) |-> rows[k].chunk_text]

\* the fallback loop of retrieve_relevant_chunks over doc_db_ids from position
\* k on; the read of the last document fails when env.fail = "read"
RECURSIVE FallbackLoop(_, _, _, _, _)
FallbackLoop(nch, doc_db_ids, k, chunk_texts, env) ==
    IF k > Len(doc_db_ids)
    THEN [raised |-> FALSE, chunk_texts |-> chunk_texts, reads |-> k - 1]
    ELSE IF env.fail = "read" /\ k = Len(doc_db_ids)
    THEN [raised |-> TRUE, chunk_texts |-> chunk_texts, reads |-> k]
    ELSE LET all_chunks == get_chunks_by_document(nch, doc_db_ids[k])
             extended == chunk_texts \o ChunkTexts(Take(all_chunks, FallbackPerDoc))
         IN  IF Len(all_chunks) > 0
             THEN IF Len(extended) >= MAX_RETRIEVAL_CHUNKS
                  THEN [raised |-> FALSE, chunk_texts |-> extended, reads |-> k]
                  ELSE FallbackLoop(nch, doc_db_ids, k + 1, extended, env)
             ELSE FallbackLoop(nch, doc_db_ids, k + 1, chunk_texts, env)

\* the except clause of retrieve_relevant_chunks that re-raises
RetrievalErrorRaised(searched, reads) ==
    [status |-> "raised", chunks |-> <<>>, errored |-> TRUE,
     searched |-> searched, fellBack |-> reads > 0, reads |-> reads]

\* the except clause of retrieve_relevant_chunks: log and return []
RetrievalError(searched, reads) ==
    [status |-> "returned", chunks |-> <<>>, errored |-> TRUE,
     searched |-> searched, fellBack |-> reads > 0, reads |-> reads]

\* the final cut that is left out
FinalCutNone(chunk_texts) == chunk_texts
\* return chunk_texts[:self.max_chunks]
FinalCut(chunk_texts) == Take(chunk_texts, MAX_RETRIEVAL_CHUNKS)

\* the test on linked_docs that never returns early
NoLinkedDocsNever(linked_docs) == FALSE
\* if not linked_docs
NoLinkedDocs(linked_docs) == Len(linked_docs) = 0

\* RAGService.retrieve_relevant_chunks.  status: the conversation row's
\* status; linked: the rows get_linked_documents returns, in the order the
\* database returns them; env: what the storage does during this call
retrieve_relevant_chunks(status, linked, nch, env) ==
    IF env.fail = "conv" \/ status # "active"
    THEN RetrievalError(FALSE, 0)
    ELSE IF env.fail = "links"
    THEN RetrievalError(FALSE, 0)
    ELSE IF NoLinkedDocs(linked)
    THEN [status |-> "returned", chunks |-> <<>>, errored |-> FALSE,
          searched |-> FALSE, fellBack |-> FALSE, reads |-> 0]
    ELSE LET doc_db_ids == linked
             found == search_chunks(nch, doc_db_ids, MAX_RETRIEVAL_CHUNKS, env)
         IN  IF found.raised
             THEN RetrievalError(TRUE, 0)
             ELSE IF Len(found.rows) > 0
             THEN [status |-> "returned", chunks |-> FinalCut(ChunkTexts(found.rows)),
                   errored |-> FALSE, searched |-> TRUE, fellBack |-> FALSE,
                   reads |-> 0]
             ELSE LET fb == FallbackLoop(nch, doc_db_ids, 1, <<>>, env)
                  IN  IF fb.raised
                      THEN RetrievalError(TRUE, fb.reads)
                      ELSE [status |-> "returned", chunks |-> FinalCut(fb.chunk_texts),
                            errored |-> FALSE, searched |-> TRUE, fellBack |-> TRUE,
                            reads |-> fb.reads]

VARIABLES history, system_prompt, retrieved_chunks, rag_enabled, outcome

\* the store of one conversation: links = its linked documents in the order
\* they were linked, nchunks = the number of chunks stored per document,
\* conv_status = the status of the conversation row; retrieval = the last
\* call of the Retriever, with what the storage did during it
VARIABLES links, nchunks, conv_status, retrieval

\* msgs = the rows of the messages table of the conversation in the order of
\* insertion, conv_mode and stats = the mode and the counters of the
\* conversation row, turns = per server process the request
\* (create_conversation / add_message) it is serving or has last served, with
\* its position in the handler and its local values (a local value is kept
\* while a later statement reads it), served = the number of requests taken
\* so far.  Of a turn, last_sent = the id of the stored message that is the
\* last element of context_messages, alone = no other turn has run on the
\* conversation since this one began (followed until the turn calls the
\* Generation Client)
VARIABLES msgs, conv_mode, stats, turns, served

\* replies = the number of requests answered so far by delete_conversation,
\* get_conversation and list_conversations, and the last of their responses
VARIABLES replies

\* conv_user = the user the conversation belongs to; documents = per document
\* its row (the user it belongs to, its status), the file it was uploaded
\* from and its rows of document_chunks in the order of insertion; uploads =
\* per document the position of the upload_document request that creates it,
\* with its arguments and its response
VARIABLES conv_user, documents, uploads

ctxVars == <<history, system_prompt, retrieved_chunks, rag_enabled, outcome>>
storeVars == <<links, nchunks, conv_status>>
turnVars == <<msgs, conv_mode, stats, turns, served>>
extVars == <<replies, conv_user, documents, uploads>>
vars == <<ctxVars, storeVars, retrieval, turnVars, extVars>>

\* what the storage does during one call of the Retriever: fail = the query
\* that fails, ft = what the FULLTEXT query matches (or that it fails), like =
\* what the LIKE query matches, blank = the user query has no keyword,
\* honoursLimit = the backend returns no more rows than LIMIT asks for
Fails == {"none", "conv", "links", "search", "read"}
NoEnv == [fail |-> "none", ft |-> "none", like |-> "none", blank |-> FALSE,
          honoursLimit |-> TRUE]
Envs ==
    {[NoEnv EXCEPT !.fail = f] : f \in {"conv", "links"}} \cup
    [fail : {"none", "search", "read"}, ft : {"none", "all", "error"},
     like : {"none", "even"}, blank : BOOLEAN, honoursLimit : BOOLEAN]

\* the orders in which a SELECT without ORDER BY may return the rows s
Orders(s) ==
    {p \in [1..Len(s) -> {s[k] : k \in 1..Len(s)}] :
        \A i, j \in 1..Len(s) : i # j => p[i] # p[j]}

NoResult == [status |-> "none", chunks |-> <<>>, errored |-> FALSE,
             searched |-> FALSE, fellBack |-> FALSE, reads |-> 0]
NoRetrieval == [called |-> FALSE, env |-> NoEnv, linked |-> <<>>, result |-> NoResult]

MaxTurns == 2
\* the server processes: a handler makes only blocking calls, so one process
\* serves one request at a time
Workers == {"w1", "w2"}

NoResponse == [status_code |-> 0, detail |-> [code |-> 0, text |-> ""]]
IdleTurn ==
    [kind |-> "none", pc |-> "idle", mode |-> "open_chat", document_ids |-> <<>>,
     content |-> 0, next_seq |-> 0, user_message |-> 0, seen |-> 0, had_docs |-> FALSE,
     rag_enabled |-> FALSE, retrieved |-> FALSE, chunks |-> None,
     last_sent |-> 0, alone |-> TRUE,
     tokens |-> 0, count |-> 0, log |-> <<>>, error |-> "none",
     response |-> NoResponse]

TurnIdle ==
    /\ msgs = <<>>
    /\ conv_mode = "open_chat"
    /\ stats = [total_tokens |-> 0, total_messages |-> 0]
    /\ turns = [t \in Workers |-> IdleTurn]
    /\ served = 0

StoreInit ==
    /\ links = <<>>
    /\ nchunks = [d \in Docs |-> 0]
    /\ conv_status = "active"
    /\ retrieval = NoRetrieval

NoReply == [op |-> "none", status_code |-> 0, body |-> ""]
Users == {"u1", "u2"}
NoDocument == [user |-> "none", status |-> "none", text |-> <<>>, chunks |-> <<>>]
NoUpload == [pc |-> "idle", user |-> "none", conversation_id |-> None, idx |-> 0,
             response |-> [status_code |-> 0, status |-> "none"]]
DocsIdle ==
    /\ documents = [d \in Docs |-> NoDocument]
    /\ uploads = [d \in Docs |-> NoUpload]
\* no request answered, no document uploaded; the conversation is of user u1
ExtIdle ==
    /\ replies = [n |-> 0, last |-> NoReply]
    /\ conv_user = "u1"
    /\ DocsIdle

NoOutcome == [status |-> "none", messages |-> <<>>, kept |-> <<>>,
              truncated |-> FALSE, warned |-> FALSE]

Init ==
    /\ history = <<>>
    /\ system_prompt \in Prompts
    /\ retrieved_chunks \in ChunkLists
    /\ rag_enabled \in BOOLEAN
    /\ outcome = NoOutcome
    /\ StoreInit
    /\ TurnIdle
    /\ ExtIdle

\* the caller's history grows by one message (a stored turn)
AppendMessage(kind) ==
    /\ Len(history) < MaxHistory
    /\ kind # "plain" =>
          /\ Len(history) < MaxRich
          /\ Specials(history, Len(history)) < MaxSpecial
    /\ history' = Append(history, NewMessage(kind, Len(history) + 1))
    /\ outcome' = NoOutcome
    /\ UNCHANGED <<system_prompt, retrieved_chunks, rag_enabled>>
    /\ UNCHANGED <<storeVars, retrieval, turnVars>>
    /\ UNCHANGED extVars

\* one call of prepare_context on the current inputs
PrepareContext ==
    /\ outcome.status = "none"
    /\ outcome' = prepare_context(history, system_prompt, retrieved_chunks, rag_enabled)
    /\ UNCHANGED <<history, system_prompt, retrieved_chunks, rag_enabled>>
    /\ UNCHANGED <<storeVars, retrieval, turnVars>>
    /\ UNCHANGED extVars

Next ==
    \/ \E kind \in Kinds : AppendMessage(kind)
    \/ PrepareContext

Spec == Init /\ [][Next]_vars

(***************************************************************************)
(* The Retriever over a store that documents are uploaded and linked to.   *)
(***************************************************************************)
CtxIdle ==
    /\ history = <<>>
    /\ system_prompt = <<>>
    /\ retrieved_chunks = None
    /\ rag_enabled = FALSE
    /\ outcome = NoOutcome

InitRetr == CtxIdle /\ StoreInit /\ TurnIdle /\ ExtIdle

\* RAGService.process_document: the chunks of document d are stored
ProcessDocument(d, n) ==
    /\ nchunks[d] = 0
    /\ nchunks' = [nchunks EXCEPT ![d] = n]
    /\ retrieval' = NoRetrieval
    /\ UNCHANGED <<ctxVars, links, conv_status, turnVars>>
    /\ UNCHANGED extVars

\* ConversationRepository.link_document: ON DUPLICATE KEY keeps one link
LinkDocument(d) ==
    /\ conv_status = "active"
    /\ \A k \in 1..Len(links) : links[k] # d
    /\ links' = Append(links, d)
    /\ retrieval' = NoRetrieval
    /\ UNCHANGED <<ctxVars, nchunks, conv_status, turnVars>>
    /\ UNCHANGED extVars

\* ConversationRepository.delete_conversation
DeleteConversation ==
    /\ conv_status = "active"
    /\ conv_status' = "deleted"
    /\ retrieval' = NoRetrieval
    /\ UNCHANGED <<ctxVars, links, nchunks, turnVars>>
    /\ UNCHANGED extVars

\* one call of RAGService.retrieve_relevant_chunks
Retrieve(env, linked) ==
    /\ ~retrieval.called
    /\ retrieval' = [called |-> TRUE, env |-> env, linked |-> linked,
                     result |-> retrieve_relevant_chunks(conv_status, linked, nchunks, env)]
    /\ UNCHANGED <<ctxVars, storeVars, turnVars>>
    /\ UNCHANGED extVars

NextRetr ==
    \/ \E d \in Docs, n \in ChunkCounts : ProcessDocument(d, n)
    \/ \E d \in Docs : LinkDocument(d)
    \/ DeleteConversation
    \/ \E env \in Envs, linked \in Orders(links) : Retrieve(env, linked)

SpecRetr == InitRetr /\ [][NextRetr]_vars

(***************************************************************************)
(* Turns: the handlers create_conversation and add_message, step by step   *)
(* between the statements that commit to the database.                     *)
(***************************************************************************)
\* app.utils.errors
ConversationNotFoundError ==
    [class |-> "ConversationNotFoundError", status_code |-> 404,
     detail |-> "Conversation not found"]
LLMServiceError(detail) ==
    [class |-> "LLMServiceError", status_code |-> 503, detail |-> detail]
ContextTooLongError ==
    [class |-> "ContextTooLongError", status_code |-> 400,
     detail |-> "Context too long even after truncation. Please start a new conversation."]

\* str(e) of an HTTPException: "<status_code>: <detail>"
StrOf(exc) == [code |-> exc.status_code, text |-> exc.detail]

\* the except clauses of add_message
add_message_except(exc) ==
    IF exc.class = "ConversationNotFoundError"
    THEN [status_code |-> exc.status_code, detail |-> [code |-> 0, text |-> exc.detail]]
    ELSE [status_code |-> 500, detail |-> StrOf(exc)]

\* the except clause of create_conversation
create_conversation_except(exc) == [status_code |-> 500, detail |-> StrOf(exc)]

\* the statements of a turn in the order stats first, reply after
StagesStatsFirst ==
    <<"user_select", "user_insert", "retrieve", "assemble", "generate",
      "count", "update", "reply_select", "reply_insert", "done">>
\* the statements of a turn in the order stats before generation
StagesStatsBeforeGeneration ==
    <<"user_select", "user_insert", "retrieve", "assemble", "count", "update",
      "generate", "reply_select", "reply_insert", "done">>
\* the statements of a turn after the conversation row is known, in the
\* order of the handlers
Stages ==
    <<"user_select", "user_insert", "retrieve", "assemble", "generate",
      "reply_select", "reply_insert", "count", "update", "done">>

NextPc(pc) == Stages[(CHOOSE k \in 1..Len(Stages) : Stages[k] = pc) + 1]

\* the lengths of the message a user sends, of a reply, and the token usage
\* the provider reports
Contents == {20, 16100}
ReplyLens == {30}
Usages == {50}
DocIdLists == {<<>>, <<1>>}
UploadDocs == {2}
LLMOutcomes == {"ok", "RateLimitError", "APIError"}
TurnEnvs == {[NoEnv EXCEPT !.ft = "all"], NoEnv, [NoEnv EXCEPT !.fail = "links"]}

build_rag_system_prompt == Some(<<Seg("prompt", 292, 292)>>)
build_open_chat_system_prompt == Some(<<Seg("prompt", 182, 182)>>)

RECURSIVE MaxSeq(_)
MaxSeq(rows) ==
    IF rows = <<>> THEN 0
    ELSE LET m == MaxSeq(Tail(rows))
         IN  IF Head(rows).sequence_number > m THEN Head(rows).sequence_number ELSE m

RECURSIVE WithSeq(_, _)
WithSeq(rows, q) ==
    IF rows = <<>> THEN <<>>
    ELSE (IF Head(rows).sequence_number = q THEN <<Head(rows)>> ELSE <<>>)
         \o WithSeq(Tail(rows), q)

RECURSIVE BySeq(_, _, _)
BySeq(rows, q, maxq) ==
    IF q > maxq THEN <<>> ELSE WithSeq(rows, q) \o BySeq(rows, q + 1, maxq)

\* the rows by descending sequence_number
get_messages_newest_first(rows) ==
    LET asc == BySeq(rows, 1, MaxSeq(rows))
    IN  [k \in 1..Len(asc) |-> asc[Len(asc) + 1 - k]]

\* MessageRepository.get_messages_by_conversation: ORDER BY sequence_number ASC
get_messages_by_conversation(rows) == BySeq(rows, 1, MaxSeq(rows))

\* dict.get(key, default)
Get(d, key, default) == IF key \in DOMAIN d THEN d[key] ELSE default

\* a formatting that hands the stored rows on as they are
format_messages_passthrough(rows) == rows

\* LLMService.format_messages_for_llm
format_messages_for_llm(rows) ==
    [k \in 1..Len(rows) |->
        [role |-> Get(rows[k], "role", "user"), content |-> Get(rows[k], "content", <<>>)]]

\* the handler has returned or raised: its local values are gone, what stays
\* is the response (and the record of the stages it went through)
Finished(turn, cause, response) ==
    [IdleTurn EXCEPT !.kind = turn.kind, !.pc = "done", !.log = turn.log,
                     !.error = cause, !.response = response]

\* the turn ends with the response the except clauses of its handler build
Fail(turn, cause, exc) ==
    Finished(turn, cause, IF turn.kind = "create"
                          THEN create_conversation_except(exc)
                          ELSE add_message_except(exc))

\* the turn goes on to its next statement; the handler returns (201) after
\* the last one
Advance(turn) ==
    LET pc == NextPc(turn.pc)
    IN  IF pc = "done"
        THEN Finished(turn, "none", [status_code |-> 201, detail |-> [code |-> 0, text |-> ""]])
        ELSE [turn EXCEPT !.pc = pc]

\* the records of the processes when process t begins the turn next: a turn
\* that has not yet called the Generation Client is no longer alone
Begin(t, next) ==
    [u \in Workers |->
        IF u = t
        THEN [next EXCEPT !.alone = \A v \in Workers \ {t} : turns[v].pc \in {"idle", "done"}]
        ELSE IF next.pc # "done" /\ turns[u].pc \in {"user_select", "user_insert", "retrieve",
                                                     "assemble", "generate"}
             THEN [turns[u] EXCEPT !.alone = FALSE]
             ELSE turns[u]]

\* process t is free to take a request; a request goes to the first free
\* process
MayStart(t) ==
    /\ turns[t].pc \in {"idle", "done"}
    /\ \A u \in Workers : (u # t /\ turns[u].pc \in {"idle", "done"}) => t = "w1"
    /\ served < MaxTurns
RECURSIVE LinkAll(_, _, _)
LinkAll(lk, document_ids, nch) ==
    IF document_ids = <<>> THEN lk
    ELSE LinkAll(IF nch[Head(document_ids)] > 0
                    /\ \A k \in 1..Len(lk) : lk[k] # Head(document_ids)
                 THEN Append(lk, Head(document_ids)) ELSE lk,
                 Tail(document_ids), nch)

\* the rows of a conversation after a first turn that was served alone
FirstTurnRows ==
    <<[id |-> 1, sequence_number |-> 1, role |-> "user",
       content |-> <<Seg("text", 1, 20)>>, tokens_used |-> 0],
      [id |-> 2, sequence_number |-> 2, role |-> "assistant",
       content |-> <<Seg("text", 2, 30)>>, tokens_used |-> 50]>>

\* no conversation yet, or a grounded_chat conversation with document 1 after
\* its first turn
InitTurn ==
    /\ CtxIdle
    /\ ExtIdle
    /\ nchunks = [d \in Docs |-> IF d = 1 THEN 1 ELSE 0]
    /\ retrieval = NoRetrieval
    /\ turns = [t \in Workers |-> IdleTurn]
    /\ served = 0
    /\ \/ /\ conv_status = "none"
          /\ conv_mode = "open_chat"
          /\ links = <<>>
          /\ msgs = <<>>
          /\ stats = [total_tokens |-> 0, total_messages |-> 0]
       \/ /\ conv_status = "active"
          /\ conv_mode = "grounded_chat"
          /\ links = <<1>>
          /\ msgs = FirstTurnRows
          /\ stats = [total_tokens |-> 50, total_messages |-> 2]

\* create_conversation up to the first message: the conversation row is
\* created and, in grounded_chat mode, the documents are linked
StartCreate(t, mode, document_ids, content) ==
    /\ MayStart(t)
    /\ conv_status = "none"
    /\ conv_status' = "active"
    /\ conv_mode' = mode
    /\ links' = IF mode = "grounded_chat" /\ Len(document_ids) > 0
                THEN LinkAll(links, document_ids, nchunks) ELSE links
    /\ turns' = Begin(t, [IdleTurn EXCEPT !.kind = "create", !.pc = "user_select",
                                          !.mode = mode, !.document_ids = document_ids,
                                          !.content = content])
    /\ served' = served + 1
    /\ UNCHANGED <<ctxVars, nchunks, retrieval, msgs, stats>>
    /\ UNCHANGED extVars

\* a lookup that also finds deleted conversations
get_conversation_by_id_any(status) == status # "none"

\* ConversationRepository.get_conversation_by_id finds a row:
\* WHERE conversation_id = %s AND status != 'deleted'
get_conversation_by_id(status) == status \notin {"none", "deleted"}

\* add_message up to the user message: get_conversation_by_id
StartAdd(t, content) ==
    /\ MayStart(t)
    /\ LET turn == [IdleTurn EXCEPT !.kind = "add", !.content = content,
                                    !.mode = conv_mode]
           next == IF ~get_conversation_by_id(conv_status)
                   THEN Fail(turn, "ConversationNotFoundError", ConversationNotFoundError)
                   ELSE [turn EXCEPT !.pc = "user_select"]
       IN  /\ turns' = Begin(t, next)
           /\ served' = served + 1
    /\ UNCHANGED <<ctxVars, storeVars, retrieval, msgs, conv_mode, stats>>
    /\ UNCHANGED extVars

\* MessageRepository.create_message: SELECT COALESCE(MAX(sequence_number), 0) + 1
CreateMessageSelect(t) ==
    /\ turns[t].pc \in {"user_select", "reply_select"}
    /\ turns' = [turns EXCEPT ![t] = Advance([turns[t] EXCEPT !.next_seq = MaxSeq(msgs) + 1])]
    /\ UNCHANGED <<ctxVars, storeVars, retrieval, msgs, conv_mode, stats, served>>
    /\ UNCHANGED extVars

\* MessageRepository.create_message: INSERT INTO messages
CreateMessageInsert(t, len) ==
    /\ turns[t].pc \in {"user_insert", "reply_insert"}
    /\ turns[t].pc = "user_insert" => len = turns[t].content
    /\ turns[t].pc = "reply_insert" => len \in ReplyLens
    /\ msgs' = Append(msgs,
                 [id |-> Len(msgs) + 1, sequence_number |-> turns[t].next_seq,
                  role |-> IF turns[t].pc = "user_insert" THEN "user" ELSE "assistant",
                  content |-> <<Seg("text", Len(msgs) + 1, len)>>,
                  tokens_used |-> IF turns[t].pc = "user_insert" THEN 0 ELSE turns[t].tokens])
    /\ turns' = [turns EXCEPT ![t] =
                    Advance([turns[t] EXCEPT
                        !.user_message = IF turns[t].pc = "user_insert" THEN Len(msgs) + 1 ELSE @,
                        !.next_seq = IdleTurn.next_seq,
                        !.log = IF turns[t].pc = "reply_insert" THEN Append(@, "persistence") ELSE @])]
    /\ UNCHANGED <<ctxVars, storeVars, retrieval, conv_mode, stats, served>>
    /\ UNCHANGED extVars

\* the history is read and the chunks are retrieved if the handler decides so
RetrieveChunks(t, env) ==
    /\ turns[t].pc = "retrieve"
    /\ LET turn == turns[t]
           create == turn.kind = "create"
           invoke == IF create THEN turn.mode = "grounded_chat"
                     ELSE turn.mode = "grounded_chat" \/ Len(links) > 0
           rag == IF create THEN turn.mode = "grounded_chat" \/ Len(turn.document_ids) > 0
                  ELSE invoke
       IN  turns' = [turns EXCEPT ![t] =
                       Advance([turn EXCEPT
                          !.seen = Len(msgs),
                          !.had_docs = Len(links) > 0,
                          !.rag_enabled = rag,
                          !.retrieved = invoke,
                          !.chunks = IF invoke
                                     THEN Some(retrieve_relevant_chunks(conv_status, links,
                                                                        nchunks, env).chunks)
                                     ELSE None,
                          !.log = IF invoke THEN Append(@, "retrieval") ELSE @])]
    /\ UNCHANGED <<ctxVars, storeVars, retrieval, msgs, conv_mode, stats, served>>
    /\ UNCHANGED extVars

\* the rows turn t hands to format_messages_for_llm: its own user message in
\* create_conversation, the history it read in add_message
TurnMessages(turn, rows) ==
    IF turn.kind = "create"
    THEN <<rows[turn.user_message]>>
    ELSE get_messages_by_conversation(SubSeq(rows, 1, turn.seen))

\* a prepare_context that empties the chunk list it was given
ContextBuiltChunksConsumed(turn) ==
    [turn EXCEPT !.mode = IdleTurn.mode, !.document_ids = IdleTurn.document_ids,
                 !.content = IdleTurn.content,
                 !.seen = IdleTurn.seen, !.had_docs = IdleTurn.had_docs,
                 !.rag_enabled = IdleTurn.rag_enabled, !.retrieved = IdleTurn.retrieved,
                 !.chunks = IF @.some THEN Some(<<>>) ELSE @]

\* after prepare_context no statement reads what the system prompt and the
\* history were built from
ContextBuilt(turn) ==
    [turn EXCEPT !.mode = IdleTurn.mode, !.document_ids = IdleTurn.document_ids,
                 !.content = IdleTurn.content,
                 !.seen = IdleTurn.seen, !.had_docs = IdleTurn.had_docs,
                 !.rag_enabled = IdleTurn.rag_enabled, !.retrieved = IdleTurn.retrieved]

\* after generate_response no statement reads user_message, retrieved_chunks
\* or context_messages
ContextSent(turn) ==
    [turn EXCEPT !.user_message = IdleTurn.user_message, !.chunks = IdleTurn.chunks,
                 !.last_sent = IdleTurn.last_sent, !.alone = IdleTurn.alone]

\* the id of the stored message that a message of the context was made from
\* (0: the message is a system message built by the handler)
StoredId(m) ==
    IF m.role # "system" /\ Len(m.content) > 0 THEN m.content[1].id ELSE 0

\* system prompt, format_messages_for_llm and ContextManager.prepare_context
AssembleContext(t) ==
    /\ turns[t].pc = "assemble"
    /\ LET turn == [turns[t] EXCEPT !.log = Append(@, "assembly")]
           context == prepare_context(format_messages_for_llm(TurnMessages(turn, msgs)),
                                      IF turn.rag_enabled THEN build_rag_system_prompt
                                      ELSE build_open_chat_system_prompt,
                                      turn.chunks, turn.rag_enabled)
       IN  turns' = [turns EXCEPT ![t] =
                        IF context.status = "raised"
                        THEN Fail(turn, "ContextTooLongError", ContextTooLongError)
                        ELSE Advance([ContextBuilt(turn) EXCEPT
                                        !.last_sent =
                                            StoredId(context.messages[Len(context.messages)])])]
    /\ UNCHANGED <<ctxVars, storeVars, retrieval, msgs, conv_mode, stats, served>>
    /\ UNCHANGED extVars

\* LLMService.generate_response
GenerateResponse(t, llm, usage) ==
    /\ turns[t].pc = "generate"
    /\ LET turn == [turns[t] EXCEPT !.log = Append(@, "generation")]
           exc == LLMServiceError(llm)
       IN  turns' = [turns EXCEPT ![t] =
                        IF llm = "ok"
                        THEN Advance([ContextSent(turn) EXCEPT !.tokens = usage])
                        ELSE Fail(turn, llm, exc)]
    /\ UNCHANGED <<ctxVars, storeVars, retrieval, msgs, conv_mode, stats, served>>
    /\ UNCHANGED extVars

\* MessageRepository.get_message_count
GetMessageCount(t) ==
    /\ turns[t].pc = "count"
    /\ turns' = [turns EXCEPT ![t] = Advance([turns[t] EXCEPT !.count = Len(msgs)])]
    /\ UNCHANGED <<ctxVars, storeVars, retrieval, msgs, conv_mode, stats, served>>
    /\ UNCHANGED extVars

\* a stats update that sets total_tokens to the usage of the turn
UpdateConversationStatsOverwrite(t) ==
    /\ turns[t].pc = "update"
    /\ stats' = [total_tokens |-> turns[t].tokens, total_messages |-> turns[t].count]
    /\ turns' = [turns EXCEPT ![t] = Advance([turns[t] EXCEPT !.log = Append(@, "stats")])]
    /\ UNCHANGED <<ctxVars, storeVars, retrieval, msgs, conv_mode, served>>
    /\ UNCHANGED extVars

\* ConversationRepository.update_conversation_stats
UpdateConversationStats(t) ==
    /\ turns[t].pc = "update"
    /\ stats' = [total_tokens |-> stats.total_tokens + turns[t].tokens,
                 total_messages |-> turns[t].count]
    /\ turns' = [turns EXCEPT ![t] = Advance([turns[t] EXCEPT !.log = Append(@, "stats")])]
    /\ UNCHANGED <<ctxVars, storeVars, retrieval, msgs, conv_mode, served>>
    /\ UNCHANGED extVars

\* upload_document while the conversation is the user's latest active one:
\* the document is stored and processed, then linked to it
UploadDocument(d, n) ==
    /\ nchunks[d] = 0
    /\ conv_status = "active"
    /\ nchunks' = [nchunks EXCEPT ![d] = n]
    /\ links' = Append(links, d)
    /\ UNCHANGED <<ctxVars, conv_status, retrieval, turnVars>>
    /\ UNCHANGED extVars

NextTurn ==
    \/ \E t \in Workers, mode \in {"open_chat", "grounded_chat"},
          document_ids \in DocIdLists, content \in Contents :
            StartCreate(t, mode, document_ids, content)
    \/ \E t \in Workers, content \in Contents : StartAdd(t, content)
    \/ \E t \in Workers : CreateMessageSelect(t)
    \/ \E t \in Workers, len \in Contents \cup ReplyLens : CreateMessageInsert(t, len)
    \/ \E t \in Workers, env \in TurnEnvs : RetrieveChunks(t, env)
    \/ \E t \in Workers : AssembleContext(t)
    \/ \E t \in Workers, llm \in LLMOutcomes, usage \in Usages : GenerateResponse(t, llm, usage)
    \/ \E t \in Workers : GetMessageCount(t)
    \/ \E t \in Workers : UpdateConversationStats(t)
    \/ \E d \in UploadDocs : UploadDocument(d, 1)

SpecTurn == InitTurn /\ [][NextTurn]_vars

(***************************************************************************)
(* Vocabulary of the properties.                                           *)
(***************************************************************************)
Assembled == Assemble(history, system_prompt, retrieved_chunks)
Windowed == apply_sliding_window(history, max_messages)
Called == outcome.status # "none"
Returned == outcome.status = "returned"
Raised == outcome.status = "raised"

Range(s) == {s[i] : i \in 1..Len(s)}

\* the estimate of one message as the specification words it
TokensOf(m) == (StrLen(m.content) \div 4) + 5
RECURSIVE SumTokens(_, _)
SumTokens(s, k) == IF k = 0 THEN 0 ELSE SumTokens(s, k - 1) + TokensOf(s[k])
Tokens(s) == SumTokens(s, Len(s))

DirectiveGiven == system_prompt.some /\ system_prompt.val # <<>>
ChunksGiven == retrieved_chunks.some /\ retrieved_chunks.val # <<>>
\* number of messages of steps 1 and 2
NFraming == (IF DirectiveGiven THEN 1 ELSE 0) + (IF ChunksGiven THEN 1 ELSE 0)

SystemIdxOf(a) == {i \in 1..Len(a) : a[i].role = "system"}
ConvIdxOf(a) == {i \in 1..Len(a) : a[i].role # "system"}

\* C1: when truncation returns, every system-role message of the assembled
\* sequence is in the output, every removed message is a non-system message,
\* and a removed conversation message has every older one removed with it.
C1_TruncationKeepsSystem ==
    (Returned /\ outcome.truncated) =>
        LET a == Assembled
            kept == Range(outcome.kept)
            removed == (1..Len(a)) \ kept
            conv == ConvIdxOf(a)
        IN  /\ SystemIdxOf(a) \subseteq kept
            /\ \A i \in removed : a[i].role # "system"
            /\ \A j \in conv \cap removed : \A i \in conv : i < j => i \in removed
            /\ Len(outcome.messages) = Cardinality(kept)
            /\ \A p \in 1..Len(outcome.kept) :
                   outcome.messages[p] = a[outcome.kept[p]]

\* a truncation that kept a system message of the history, kept at least two
\* conversation messages and removed at least two
C1_Witness ==
    /\ Returned /\ outcome.truncated
    /\ LET a == Assembled
           kept == Range(outcome.kept)
       IN  /\ \E i \in SystemIdxOf(a) : i > NFraming
           /\ Cardinality(ConvIdxOf(a) \cap kept) >= 2
           /\ Cardinality((1..Len(a)) \ kept) >= 2

NonSystem(m) == m.role # "system"
\* the last k messages of s
LastK(s, k) == SubSeq(s, Len(s) - k + 1, Len(s))
\* the longest suffix of s whose summed estimate is at most avail
LongestFittingSuffix(s, avail) ==
    LET ks == {k \in 0..Len(s) : Tokens(LastK(s, k)) <= avail}
    IN  IF ks = {} THEN <<>>
        ELSE LastK(s, CHOOSE k \in ks : \A x \in ks : x <= k)
\* the estimate of the system-role messages of a sequence
SystemTokens(a) == Tokens(SelectSeq(a, LAMBDA m : m.role = "system"))

\* C2: when truncation is triggered and returns, the retained conversation
\* messages are exactly the longest suffix of the windowed history whose
\* summed estimate is at most budget - systemTokens - 100, in original order.
C2_LongestSuffixOfWindow ==
    (Returned /\ outcome.truncated) =>
        SelectSeq(outcome.messages, NonSystem)
            = LongestFittingSuffix(Windowed,
                  MAX_CONTEXT_TOKENS - SystemTokens(Assembled) - 100)

\* C3: if the estimated total of the assembled sequence is at most the token
\* budget, prepare_context returns the assembled sequence unchanged and
\* raises nothing.
C3_NoTruncationWithinBudget ==
    (Called /\ Tokens(Assembled) <= MAX_CONTEXT_TOKENS) =>
        /\ Returned
        /\ ~outcome.truncated
        /\ outcome.messages = Assembled

\* a call whose assembled sequence estimates to exactly the budget
C3_Witness ==
    /\ Returned
    /\ Len(history) >= 2
    /\ Tokens(Assembled) = MAX_CONTEXT_TOKENS

\* C4: once truncation is triggered, prepare_context raises ContextTooLongError
\* when no conversation message exists, when the newest conversation message
\* alone does not fit what the system messages leave (so every conversation
\* message is removed), and in particular when the system messages alone
\* exceed the budget; a returned truncated sequence always retains a
\* conversation message.
C4_OverflowRaises ==
    LET a == Assembled
        conv == ConvIdxOf(a)
        avail == MAX_CONTEXT_TOKENS - SystemTokens(a) - 100
        newest == CHOOSE i \in conv : \A j \in conv : j <= i
    IN  /\ (Called /\ Tokens(a) > MAX_CONTEXT_TOKENS
               /\ (conv = {} \/ TokensOf(a[newest]) > avail
                             \/ SystemTokens(a) > MAX_CONTEXT_TOKENS))
           => Raised
        /\ (Returned /\ outcome.truncated)
           => \E p \in 1..Len(outcome.messages) : NonSystem(outcome.messages[p])

\* an overflow with conversation messages present and system messages that
\* fit the budget by themselves
C4_Witness ==
    /\ Raised
    /\ ConvIdxOf(Assembled) # {}
    /\ SystemTokens(Assembled) <= MAX_CONTEXT_TOKENS

\* an overflow without any conversation message
C4_WitnessNoConversation ==
    /\ Raised
    /\ ConvIdxOf(Assembled) = {}

\* C5: the sliding window returns the last min(len(history), 20) messages in
\* original order: a no-op up to 20 messages, the last 20 beyond.
C5_SlidingWindow ==
    LET w == apply_sliding_window(history, max_messages)
        n == Len(history)
    IN  /\ n <= 20 => w = history
        /\ n > 20 => Len(w) = 20
        /\ \A i \in 1..Len(w) : w[i] = history[n - Len(w) + i]
        /\ (Returned /\ ~outcome.truncated) =>
               /\ Len(outcome.messages) = NFraming + Len(w)
               /\ \A i \in 1..Len(w) : outcome.messages[NFraming + i] = w[i]

\* a call on a history of more than 20 messages
C5_Witness ==
    /\ Len(history) > 20
    /\ Returned /\ ~outcome.truncated
    /\ Len(outcome.messages) = NFraming + 20

\* r is a subsequence of w: the messages of r occur in w in the same order
RECURSIVE SubseqFrom(_, _, _, _)
SubseqFrom(r, i, w, j) ==
    IF i > Len(r) THEN TRUE
    ELSE IF j > Len(w) THEN FALSE
    ELSE IF r[i] = w[j] THEN SubseqFrom(r, i + 1, w, j + 1)
    ELSE SubseqFrom(r, i, w, j + 1)
IsSubseq(r, w) == SubseqFrom(r, 1, w, 1)

IsContextMessage(m) ==
    m.role = "system" /\ m.content # <<>> /\ m.content[1].kind = "header"

\* C6: every returned sequence is the system directive (if provided), then the
\* context-injection message (if chunks are non-empty), then the retained
\* history messages in their original relative order.
C6_ConstructionOrder ==
    Returned =>
        LET out == outcome.messages
        IN  /\ Len(out) >= NFraming
            /\ DirectiveGiven => out[1] = Msg("system", system_prompt.val)
            /\ ChunksGiven => IsContextMessage(out[NFraming])
            /\ IsSubseq(SubSeq(out, NFraming + 1, Len(out)), Windowed)

\* C7: the context-injection message holds each chunk exactly once, chunk N
\* right after the label [Context N] and a newline, N counting from 1 in
\* input order, and no other label.
C7_ContextLabels ==
    (Returned /\ ChunksGiven) =>
        LET body == outcome.messages[NFraming].content
            chunks == retrieved_chunks.val
            n == Len(chunks)
            At(N) == {p \in 1..Len(body) : body[p].kind = "label" /\ body[p].id = N}
            Pos(N) == CHOOSE p \in At(N) : TRUE
        IN  /\ IsContextMessage(outcome.messages[NFraming])
            /\ \A p \in 1..Len(body) : body[p].kind = "label" => body[p].id \in 1..n
            /\ \A N \in 1..n :
                 /\ Cardinality(At(N)) = 1
                 /\ body[Pos(N)].n = 11
                 /\ Pos(N) + 1 + Len(chunks[N]) <= Len(body)
                 /\ body[Pos(N) + 1].kind = "nl"
                 /\ SubSeq(body, Pos(N) + 2, Pos(N) + 1 + Len(chunks[N])) = chunks[N]
            /\ \A N \in 1..(n - 1) : Pos(N) < Pos(N + 1)
            /\ Cardinality({p \in 1..Len(body) : body[p].kind = "chunk"}) = n

\* a returned sequence with a directive and three labelled chunks
C7_Witness ==
    /\ Returned
    /\ DirectiveGiven
    /\ retrieved_chunks.some /\ Len(retrieved_chunks.val) = 3
    /\ IsContextMessage(outcome.messages[2])

\* C8: a context-injection message is emitted exactly when the chunk list is
\* non-empty; with rag_enabled and no chunks (None or []) the call records a
\* warning and behaves as on the directive and the windowed history alone.
C8_ContextIffChunks ==
    /\ Returned =>
         ((\E p \in 1..Len(outcome.messages) : IsContextMessage(outcome.messages[p]))
             <=> ChunksGiven)
    /\ (Called /\ rag_enabled /\ ~ChunksGiven) =>
         LET expected ==
                 (IF DirectiveGiven THEN <<Msg("system", system_prompt.val)>> ELSE <<>>)
                 \o Windowed
         IN  /\ outcome.warned
             /\ Tokens(expected) <= MAX_CONTEXT_TOKENS =>
                    (Returned /\ outcome.messages = expected)

\* an ungrounded turn: rag_enabled, an empty chunk list, a returned sequence
C8_Witness ==
    /\ Returned
    /\ rag_enabled
    /\ retrieved_chunks = Some(<<>>)
    /\ Len(history) >= 1

OpenChatDirective == Some(<<Seg("prompt", 182, 182)>>)
\* the messages of steps 1 and 2 for the current inputs
Framing ==
    (IF DirectiveGiven THEN <<Msg("system", system_prompt.val)>> ELSE <<>>)
    \o (IF ChunksGiven
        THEN <<Msg("system", context_content(retrieved_chunks.val))>> ELSE <<>>)

\* C9 as stated: on an empty history prepare_context raises nothing and returns
\* only the system/context messages (one system message and no context message
\* for the open-chat directive without retrieval).
C9_EmptyHistoryNeverFails ==
    (Called /\ history = <<>>) =>
        /\ Returned
        /\ Len(outcome.messages) = NFraming
        /\ \A p \in 1..Len(outcome.messages) : outcome.messages[p].role = "system"
        /\ (system_prompt = OpenChatDirective /\ ~rag_enabled /\ ~ChunksGiven) =>
              /\ Len(outcome.messages) = 1
              /\ ~IsContextMessage(outcome.messages[1])

\* C9 amended: on an empty history, if the system/context messages estimate to
\* at most the budget the output is exactly those messages and nothing is
\* raised (one system message and no context message for the open-chat
\* directive without chunks); if they exceed the budget the call raises.
C9_EmptyHistory ==
    (Called /\ history = <<>>) =>
        /\ Tokens(Framing) <= MAX_CONTEXT_TOKENS =>
              /\ Returned
              /\ outcome.messages = Framing
              /\ (system_prompt = OpenChatDirective /\ ~rag_enabled /\ ~ChunksGiven) =>
                    /\ Len(outcome.messages) = 1
                    /\ outcome.messages[1].role = "system"
                    /\ ~IsContextMessage(outcome.messages[1])
        /\ Tokens(Framing) > MAX_CONTEXT_TOKENS => Raised

\* the first-turn scenario: empty history, open-chat directive, no retrieval
C9_Witness ==
    /\ Returned
    /\ history = <<>>
    /\ system_prompt = OpenChatDirective
    /\ ~rag_enabled /\ ~ChunksGiven
    /\ Len(outcome.messages) = 1

RECURSIVE SumOfEstimates(_)
SumOfEstimates(rows) ==
    IF rows = {} THEN 0
    ELSE LET r == CHOOSE x \in rows : TRUE
         IN  r[4] + SumOfEstimates(rows \ {r})

\* C10: a message's estimate is floor(len/4) + 5, the total is the sum over the
\* messages, count_tokens is the non-negative floor(len/4), and a longer
\* content never has a smaller estimate.
C10_TokenEstimate ==
    Called =>
    LET a == Assembled
        n == Len(a)
        \* <<position, length, count_tokens, estimate of the message alone>>
        rows == {<<i, StrLen(a[i].content), count_tokens(a[i].content),
                   estimate_total_tokens(<<a[i]>>)>> : i \in 1..n}
        pairs == {<<r[2], r[4]>> : r \in rows}
    IN  /\ \A r \in rows :
             /\ r[3] >= 0 /\ 4 * r[3] <= r[2] /\ r[2] < 4 * r[3] + 4
             /\ r[4] = r[3] + 5
        /\ estimate_total_tokens(a) = SumOfEstimates(rows)
        /\ \A x \in pairs : \A y \in pairs : x[1] <= y[1] => x[2] <= y[2]

\* two messages of different lengths, neither a multiple of four, with
\* different estimates
C10_Witness ==
    /\ Called
    /\ Len(Assembled) = 3
    /\ LET a == Assembled
       IN  \E i \in 1..3 : \E j \in 1..3 :
             /\ StrLen(a[i].content) % 4 # 0
             /\ StrLen(a[j].content) % 4 # 0
             /\ StrLen(a[i].content) < StrLen(a[j].content)
             /\ estimate_total_tokens(<<a[i]>>) < estimate_total_tokens(<<a[j]>>)

(***************************************************************************)
(* Properties of the Retriever.                                            *)
(***************************************************************************)
Retrieved == retrieval.called
Result == retrieval.result

\* the first FallbackPerDoc chunk texts of each document of docs, in the
\* order of docs
RECURSIVE FirstChunksOf(_, _)
FirstChunksOf(docs, nch) ==
    IF docs = <<>> THEN <<>>
    ELSE [k \in 1..(IF nch[Head(docs)] < FallbackPerDoc THEN nch[Head(docs)]
                    ELSE FallbackPerDoc) |->
             Chunk(100 * Head(docs) + (k - 1), 40 + (k - 1))]
         \o FirstChunksOf(Tail(docs), nch)

\* C11: when the conversation has no linked document, the Retriever returns
\* the empty list, does not raise and does not call the chunk search.
C11_NoLinkedDocuments ==
    (Retrieved /\ Len(links) = 0) =>
        /\ Result.status = "returned"
        /\ Result.chunks = <<>>
        /\ ~Result.searched

C11_Witness ==
    /\ Retrieved
    /\ Len(links) = 0
    /\ conv_status = "active"
    /\ retrieval.env.fail = "none"
    /\ \E d \in Docs : nchunks[d] > 0
    /\ Result.chunks = <<>>

\* C12: whatever path produced it, search or fallback, the returned list has
\* at most MAX_RETRIEVAL_CHUNKS elements, also when the search returned more
\* rows than the limit it was given.
C12_AtMostMaxChunks ==
    Retrieved => Len(Result.chunks) <= MAX_RETRIEVAL_CHUNKS

C12_Witness ==
    /\ Retrieved
    /\ ~retrieval.env.honoursLimit
    /\ retrieval.env.ft = "all"
    /\ \A d \in Docs : nchunks[d] = 4
    /\ Len(links) = 2
    /\ ~Result.fellBack
    /\ Len(Result.chunks) = MAX_RETRIEVAL_CHUNKS

C12_WitnessFallback ==
    /\ Retrieved
    /\ Result.fellBack
    /\ ~Result.errored
    /\ Len(FirstChunksOf(retrieval.linked, nchunks)) > MAX_RETRIEVAL_CHUNKS
    /\ Len(Result.chunks) = MAX_RETRIEVAL_CHUNKS

\* C13: when the search finds nothing, the result is the first three chunks
\* of each linked document, the documents taken in the order they were
\* linked, cut to MAX_RETRIEVAL_CHUNKS.
C13_FallbackInLinkOrder ==
    (Retrieved /\ Result.fellBack /\ ~Result.errored) =>
        Result.chunks = Take(FirstChunksOf(links, nchunks), MAX_RETRIEVAL_CHUNKS)

\* C14: an error inside the Retriever never reaches the caller: the call
\* returns, and returns the empty list when an error occurred.
C14_ErrorsSwallowed ==
    Retrieved =>
        /\ Result.status = "returned"
        /\ Result.errored => Result.chunks = <<>>

C14_Witness ==
    /\ Retrieved
    /\ retrieval.env.fail = "read"
    /\ Result.errored
    /\ Result.reads = 2
    /\ nchunks[retrieval.linked[1]] > 0
    /\ Result.status = "returned"
    /\ Result.chunks = <<>>

(***************************************************************************)
(* Properties of the turns.                                                *)
(***************************************************************************)
Done(t) == turns[t].pc = "done"
Running(t) == turns[t].pc \notin {"idle", "done"}
NoneRunning == \A t \in Workers : ~Running(t)

RowsOfRole(role) == {k \in 1..Len(msgs) : msgs[k].role = role}

StageRank(stage) ==
    CASE stage = "retrieval" -> 1
      [] stage = "assembly" -> 2
      [] stage = "generation" -> 3
      [] stage = "persistence" -> 4
      [] stage = "stats" -> 5

InStageOrder(log) ==
    \A i, j \in 1..Len(log) : i < j => StageRank(log[i]) < StageRank(log[j])

Logged(t, stage) == \E k \in 1..Len(turns[t].log) : turns[t].log[k] = stage

\* C15: a turn whose context assembly raised ContextOverflow answers with the
\* 400 "start a new conversation" error, not with the generic 500.
C15_OverflowReported ==
    \A t \in Workers :
        (Done(t) /\ turns[t].error = "ContextTooLongError") =>
            /\ turns[t].response.status_code = ContextTooLongError.status_code
            /\ turns[t].response.status_code # 500

\* C16: the error kind reported for a turn that failed in generation (rate
\* limit, service error) differs from the kind reported for a turn whose
\* context overflowed.
C16_GenerationFailureDistinct ==
    \A t, u \in Workers :
        (/\ Done(t) /\ turns[t].error \in {"RateLimitError", "APIError"}
         /\ Done(u) /\ turns[u].error = "ContextTooLongError") =>
            turns[t].response.status_code # turns[u].response.status_code

\* C17: the sequence numbers of the conversation's messages are exactly
\* 1..n, without gap or duplicate, also when turns interleave.
C17_SequenceNumbers ==
    /\ {msgs[k].sequence_number : k \in 1..Len(msgs)} = 1..Len(msgs)
    /\ \A i, j \in 1..Len(msgs) :
          i # j => msgs[i].sequence_number # msgs[j].sequence_number

\* C18: once every turn has completed (and each has persisted its reply),
\* the stored total_messages is the number of messages persisted.
C18_CountersAtomic ==
    (/\ NoneRunning
     /\ Len(msgs) > 0
     /\ Cardinality(RowsOfRole("user")) = Cardinality(RowsOfRole("assistant"))) =>
        stats.total_messages = Len(msgs)

\* C19: in every turn the stages happen in the order retrieval, assembly,
\* generation, persistence of the reply, stats update, and the counters of
\* the conversation change only in the stats update of a turn that has
\* generated and persisted its reply.
C19_StageOrder ==
    /\ [](\A t \in Workers :
            /\ InStageOrder(turns[t].log)
            /\ Logged(t, "stats") =>
                  /\ Logged(t, "assembly")
                  /\ Logged(t, "generation")
                  /\ Logged(t, "persistence"))
    /\ [][stats' # stats =>
            \E t \in Workers :
                /\ turns[t].log # turns'[t].log
                /\ turns'[t].log = Append(turns[t].log, "stats")
                /\ Logged(t, "generation")
                /\ Logged(t, "persistence")
                /\ \E k \in 1..Len(msgs) :
                      msgs[k].role = "assistant"]_vars

C19_Witness ==
    \E t \in Workers :
        /\ Done(t)
        /\ turns[t].log = <<"retrieval", "assembly", "generation", "persistence", "stats">>
        /\ stats.total_messages > 0

\* C20: in a turn the Retriever is invoked exactly when the mode is
\* grounded_chat or the conversation has documents attached, and a turn
\* treated as RAG-enabled has attempted retrieval.
C20_RetrievalIffGrounded ==
    \A t \in Workers :
        turns[t].pc = "assemble" =>
            /\ turns[t].retrieved <=> (turns[t].mode = "grounded_chat" \/ turns[t].had_docs)
            /\ turns[t].rag_enabled => turns[t].retrieved

(***************************************************************************)
(* Further properties of the context assembler.                            *)
(***************************************************************************)
\* C24: a sequence that prepare_context returns estimates to at most the
\* token budget, and to at most the budget less 100 when it was truncated.
C24_OutputWithinBudget ==
    Returned =>
        LET total == Tokens(outcome.messages)
        IN  /\ total <= MAX_CONTEXT_TOKENS
            /\ outcome.truncated => total <= MAX_CONTEXT_TOKENS - 100

\* a truncation that returns fewer messages than were assembled, among them
\* one of more than 3000 tokens
C24_Witness ==
    /\ Returned
    /\ outcome.truncated
    /\ Len(outcome.messages) < Len(Assembled)
    /\ \E i \in 1..Len(outcome.messages) : TokensOf(outcome.messages[i]) > 3000

(***************************************************************************)
(* format_messages_for_llm over lists of message dicts.                    *)
(***************************************************************************)
MaxRows == 2

\* the dicts handed to format_messages_for_llm: with or without a role, with
\* or without a content (which may be the empty string), bare as in
\* test_message_formatting or with the other columns of a stored row
RowRoles == {"user", "assistant"}
RowContents(k) == {<<>>, <<Seg("text", k, 9)>>}
BareRows(k) ==
    [role : RowRoles, content : RowContents(k)] \cup [role : RowRoles] \cup
    [content : RowContents(k)] \cup {<<>>}
StoredRows(k) ==
    [id : {k}, tokens_used : {0}, role : RowRoles, content : RowContents(k)] \cup
    [id : {k}, tokens_used : {0}, role : RowRoles] \cup
    [id : {k}, tokens_used : {0}, content : RowContents(k)]
MessageDicts(k) == BareRows(k) \cup StoredRows(k)

InitFmt == CtxIdle /\ StoreInit /\ TurnIdle /\ ExtIdle

\* the caller's list grows by one dict
StoreRow(row) ==
    /\ Len(msgs) < MaxRows
    /\ msgs' = Append(msgs, row)
    /\ UNCHANGED <<ctxVars, storeVars, retrieval, conv_mode, stats, turns, served>>
    /\ UNCHANGED extVars

\* one call of format_messages_for_llm on the current list
FormatMessages ==
    /\ history' = format_messages_for_llm(msgs)
    /\ UNCHANGED <<system_prompt, retrieved_chunks, rag_enabled, outcome>>
    /\ UNCHANGED <<storeVars, retrieval, turnVars>>
    /\ UNCHANGED extVars

NextFmt ==
    \/ \E row \in MessageDicts(Len(msgs) + 1) : StoreRow(row)
    \/ FormatMessages

SpecFmt == InitFmt /\ [][NextFmt]_vars

\* C22: format_messages_for_llm returns a list of the length and order of its
\* input whose element i has exactly the two fields role and content, with the
\* role and the content of input i, 'user' and '' standing in for an absent one.
C22_FormatKeepsRoleAndContent ==
    [][msgs' = msgs =>
        /\ Len(history') = Len(msgs)
        /\ \A i \in 1..Len(msgs) :
              /\ DOMAIN history'[i] = {"role", "content"}
              /\ history'[i].role =
                    IF "role" \in DOMAIN msgs[i] THEN msgs[i].role ELSE "user"
              /\ history'[i].content =
                    IF "content" \in DOMAIN msgs[i] THEN msgs[i].content ELSE <<>>]_vars

\* a formatted list of two dicts: a stored row without a role, and one without
\* a content
C22_Witness ==
    /\ Len(msgs) = 2
    /\ history = format_messages_for_llm(msgs)
    /\ "id" \in DOMAIN msgs[1]
    /\ "role" \notin DOMAIN msgs[1]
    /\ "content" \notin DOMAIN msgs[2]
    /\ history[1].role = "user"
    /\ history[2].content = <<>>
    /\ history[1].content # <<>>

(***************************************************************************)
(* Further properties of the turns.                                        *)
(***************************************************************************)
RECURSIVE TokensUsed(_, _)
\* the sum of tokens_used over the first k rows of the given role
TokensUsed(role, k) ==
    IF k = 0 THEN 0
    ELSE TokensUsed(role, k - 1) + (IF msgs[k].role = role THEN msgs[k].tokens_used ELSE 0)

TurnFailures == {"ContextTooLongError", "RateLimitError", "APIError"}
FailedTurn(t) == Done(t) /\ turns[t].error \in TurnFailures

\* C26: a turn that fails in context assembly or in generation persists no
\* assistant message and does not touch the counters: the failing step changes
\* nothing that is stored, the user message the turn had persisted stays where
\* it is, and a later turn reads it with the rest of the history.
C26_FailedTurnKeepsUserMessage ==
    /\ [](\A t \in Workers :
            FailedTurn(t) => ~Logged(t, "persistence") /\ ~Logged(t, "stats"))
    /\ [][/\ \A t \in Workers :
               (turns[t].pc \in {"assemble", "generate"} /\ turns'[t].error \in TurnFailures) =>
                  /\ turns[t].user_message \in RowsOfRole("user")
                  /\ msgs' = msgs /\ stats' = stats /\ conv_mode' = conv_mode
                  /\ UNCHANGED storeVars
          /\ \A k \in 1..Len(msgs) : Len(msgs') >= k /\ msgs'[k] = msgs[k]
          /\ stats' # stats =>
                \E t \in Workers : turns[t].pc = "update" /\ turns'[t].error = "none"
          /\ Len(msgs') > Len(msgs) /\ msgs'[Len(msgs')].role = "assistant" =>
                \E t \in Workers : turns[t].pc = "reply_insert" /\ turns'[t].error = "none"
          /\ \A t \in Workers :
               (turns[t].kind = "add" /\ turns[t].pc = "retrieve" /\ turns'[t].pc = "assemble") =>
                  turns'[t].seen = Len(msgs)]_vars

\* a turn has failed; its user message is unanswered in the history that a
\* later turn has read, and the counters do not count it
C26_Witness ==
    \E t, u \in Workers :
        /\ FailedTurn(t)
        /\ turns[u].pc = "assemble"
        /\ turns[u].seen = Len(msgs)
        /\ \E k \in 1..(Len(msgs) - 1) : msgs[k].role = "user" /\ msgs[k + 1].role = "user"
        /\ stats.total_messages < Len(msgs) - 1
        /\ Cardinality(RowsOfRole("assistant")) < Cardinality(RowsOfRole("user")) - 1

\* turn t leaves the statement pc in this step
Leaves(t, pc) == turns[t].pc = pc /\ turns'[t].pc # pc

\* C21: a call of retrieve_relevant_chunks or of prepare_context changes no
\* conversation, message, document, chunk or link, keeps nothing that another
\* call could see, and prepare_context returns with the chunk list and the
\* history it was given as they were.
C21_RetrieverAndAssemblerReadOnly ==
    [][\A t \in Workers :
          /\ (Leaves(t, "retrieve") \/ Leaves(t, "assemble")) =>
                /\ msgs' = msgs /\ stats' = stats /\ conv_mode' = conv_mode
                /\ UNCHANGED storeVars
                /\ UNCHANGED <<ctxVars, retrieval>>
                /\ \A u \in Workers \ {t} : turns'[u] = turns[u]
          /\ (Leaves(t, "assemble") /\ turns'[t].pc = "generate") =>
                /\ turns'[t].chunks = turns[t].chunks
                /\ turns'[t].user_message = turns[t].user_message
                /\ TurnMessages(turns[t], msgs') = TurnMessages(turns[t], msgs)]_vars

\* a turn has retrieved chunks and assembled its context while another turn
\* is running on the conversation
C21_Witness ==
    \E t, u \in Workers :
        /\ turns[t].pc = "generate"
        /\ Logged(t, "retrieval")
        /\ ListTruthy(turns[t].chunks)
        /\ u # t /\ Running(u)
        /\ Len(links) > 0
        /\ Len(msgs) >= 3

(***************************************************************************)
(* Soft delete: delete_conversation, get_conversation and                  *)
(* list_conversations beside the turns of one conversation.                *)
(***************************************************************************)
MaxCalls == 3

Reply(op, status_code, body) == [op |-> op, status_code |-> status_code, body |-> body]
Answered(reply) == [n |-> replies.n + 1, last |-> reply]

\* ConversationRepository.list_conversations selects the row:
\* WHERE user_id = %s AND status = 'active'
list_conversations_row(status) == status = "active"

\* ConversationRepository.delete_conversation: UPDATE conversations SET
\* status = 'deleted' WHERE conversation_id = %s; no row, no change
delete_conversation_update(status) == IF status = "none" THEN status ELSE "deleted"

\* the handler delete_conversation
delete_conversation ==
    /\ replies.n < MaxCalls
    /\ conv_status' = delete_conversation_update(conv_status)
    /\ replies' = Answered(Reply("delete", 200, "Conversation deleted successfully"))
    /\ UNCHANGED <<ctxVars, links, nchunks, retrieval, turnVars>>
    /\ UNCHANGED <<conv_user, documents, uploads>>

\* the handler get_conversation
get_conversation ==
    /\ replies.n < MaxCalls
    /\ replies' = Answered(IF get_conversation_by_id(conv_status)
                           THEN Reply("get", 200, conv_status)
                           ELSE Reply("get", ConversationNotFoundError.status_code,
                                      ConversationNotFoundError.detail))
    /\ UNCHANGED <<ctxVars, storeVars, retrieval, turnVars>>
    /\ UNCHANGED <<conv_user, documents, uploads>>

\* the handler list_conversations, for the user of the conversation
list_conversations ==
    /\ replies.n < MaxCalls
    /\ replies' = Answered(Reply("list", 200, IF list_conversations_row(conv_status)
                                              THEN "listed" ELSE "not listed"))
    /\ UNCHANGED <<ctxVars, storeVars, retrieval, turnVars>>
    /\ UNCHANGED <<conv_user, documents, uploads>>

\* the requests of one client after another: one server process serves the
\* turns, with messages that fit the budget and a provider that answers
NextDel ==
    \/ delete_conversation
    \/ get_conversation
    \/ list_conversations
    \/ StartAdd("w1", 20)
    \/ CreateMessageSelect("w1")
    \/ \E len \in {20} \cup ReplyLens : CreateMessageInsert("w1", len)
    \/ RetrieveChunks("w1", NoEnv)
    \/ AssembleContext("w1")
    \/ \E usage \in Usages : GenerateResponse("w1", "ok", usage)
    \/ GetMessageCount("w1")
    \/ UpdateConversationStats("w1")

SpecDel == InitTurn /\ [][NextDel]_vars

\* the step answers a request of the given handler
Answers(op) == replies'.n = replies.n + 1 /\ replies'.last.op = op
\* process t takes a request in this step
Takes(t) == served' = served + 1 /\ turns'[t] # turns[t]

\* C23: once delete_conversation has completed on a conversation, it stays
\* deleted; every get_conversation and add_message that comes later answers
\* ConversationNotFound, and such an add_message stores nothing;
\* list_conversations no longer shows it; the messages stored so far stay.
C23_SoftDeleteIsFinal ==
    [][/\ \A k \in 1..Len(msgs) : Len(msgs') >= k /\ msgs'[k] = msgs[k]
       /\ conv_status = "deleted" =>
            /\ conv_status' = "deleted"
            /\ Answers("get") =>
                  /\ replies'.last.status_code = 404
                  /\ replies'.last.body = ConversationNotFoundError.detail
            /\ Answers("list") => replies'.last.body = "not listed"
            /\ \A t \in Workers :
                  Takes(t) =>
                     /\ turns'[t].pc = "done"
                     /\ turns'[t].error = "ConversationNotFoundError"
                     /\ turns'[t].response.status_code = 404
                     /\ msgs' = msgs]_vars

\* after the delete of a conversation with messages, an add_message was
\* refused and a get_conversation has just answered 404
C23_Witness ==
    /\ conv_status = "deleted"
    /\ Len(msgs) >= 2
    /\ replies.n >= 2
    /\ replies.last.op = "get"
    /\ replies.last.status_code = 404
    /\ Done("w1")
    /\ turns["w1"].error = "ConversationNotFoundError"

\* C27: delete_conversation on an identifier that names no conversation which
\* exists and is not deleted answers ConversationNotFound, not success.
C27_DeleteOfMissingReported ==
    [][(conv_status # "active" /\ Answers("delete")) =>
          /\ replies'.last.status_code = 404
          /\ replies'.last.body = ConversationNotFoundError.detail]_vars

(***************************************************************************)
(* Documents: upload_document step by step between the statements that     *)
(* commit, and the links that create_conversation makes.                   *)
(***************************************************************************)
chunk_size == 500

\* a text is the sequence of the sizes (in tokens) of its paragraphs, a
\* paragraph above chunk_size counting as its sentences; <<>> is a file with
\* no more than 10 characters of text.  A chunk is the sequence of the
\* positions of the units joined in it.
Texts == {<<>>, <<200, 200, 300>>}

RECURSIVE ChunkLoop(_, _, _, _, _)
ChunkLoop(text, k, chunks, current_chunk, current_size) ==
    IF k > Len(text)
    THEN IF current_chunk # <<>> THEN Append(chunks, current_chunk) ELSE chunks
    ELSE IF current_size + text[k] > chunk_size /\ current_chunk # <<>>
         THEN ChunkLoop(text, k + 1, Append(chunks, current_chunk), <<k>>, text[k])
         ELSE ChunkLoop(text, k + 1, chunks, Append(current_chunk, k),
                        current_size + text[k])

\* RAGService._chunk_text
chunk_text(text) == ChunkLoop(text, 1, <<>>, <<>>, 0)

\* an enumeration that counts from one
enumerate_from_one(chunks) ==
    [k \in 1..Len(chunks) |-> [chunk_index |-> k, chunk_text |-> chunks[k]]]

\* enumerate(chunks), as the rows that create_chunk stores
enumerate(chunks) ==
    [k \in 1..Len(chunks) |-> [chunk_index |-> k - 1, chunk_text |-> chunks[k]]]

\* the conversation exists; no document, no upload_document request yet
InitDoc ==
    /\ CtxIdle
    /\ TurnIdle
    /\ links = <<>>
    /\ nchunks = [d \in Docs |-> 0]
    /\ conv_status = "none"
    /\ retrieval = NoRetrieval
    /\ replies = [n |-> 0, last |-> NoReply]
    /\ conv_user = "none"
    /\ DocsIdle

\* DocumentRepository.get_document_by_id finds a row
get_document_by_id(d) == documents[d].status # "none"

RECURSIVE LinkDocuments(_, _)
\* the loop of create_conversation over document_ids
LinkDocuments(lk, document_ids) ==
    IF document_ids = <<>> THEN lk
    ELSE LinkDocuments(IF get_document_by_id(Head(document_ids))
                          /\ \A k \in 1..Len(lk) : lk[k] # Head(document_ids)
                       THEN Append(lk, Head(document_ids)) ELSE lk,
                       Tail(document_ids))

\* create_conversation up to the first message: the conversation row is
\* created for the user and, in grounded_chat mode, the documents are linked
CreateConversation(user, mode, document_ids) ==
    /\ conv_status = "none"
    /\ conv_status' = "active"
    /\ conv_user' = user
    /\ conv_mode' = mode
    /\ links' = IF mode = "grounded_chat" /\ Len(document_ids) > 0
                THEN LinkDocuments(links, document_ids) ELSE links
    /\ UNCHANGED <<ctxVars, nchunks, retrieval, msgs, stats, turns, served>>
    /\ UNCHANGED <<replies, documents, uploads>>

\* the server process is free for an upload_document request
NoUploadRunning == \A d \in Docs : uploads[d].pc \in {"idle", "done"}

\* upload_document up to the text: create_document stores the row with
\* status 'processing', the text is extracted from the file
UploadCreate(d, user, conversation_id, text) ==
    /\ NoUploadRunning
    /\ documents[d].status = "none"
    /\ \A e \in Docs : e < d => documents[e].status # "none"
    /\ documents' = [documents EXCEPT ![d] =
                        [user |-> user, status |-> "processing", text |-> text,
                         chunks |-> <<>>]]
    /\ uploads' = [uploads EXCEPT ![d] =
                      [NoUpload EXCEPT !.user = user, !.conversation_id = conversation_id,
                                       !.pc = IF Len(text) > 0 THEN "chunk" ELSE "failed"]]
    /\ UNCHANGED <<ctxVars, storeVars, retrieval, turnVars, replies, conv_user>>

\* process_document: one create_chunk of the loop (ok = the statement does
\* not raise)
StoreChunk(d, ok) ==
    /\ uploads[d].pc = "chunk"
    /\ LET rows == enumerate(chunk_text(documents[d].text))
           idx == uploads[d].idx
       IN  IF ok
           THEN /\ documents' = [documents EXCEPT ![d].chunks = Append(@, rows[idx + 1])]
                /\ nchunks' = [nchunks EXCEPT ![d] = @ + 1]
                /\ uploads' = [uploads EXCEPT ![d].idx = idx + 1,
                                              ![d].pc = IF idx + 1 = Len(rows)
                                                        THEN "processed" ELSE "chunk"]
           ELSE /\ uploads' = [uploads EXCEPT ![d].pc = "failed", ![d].idx = 0]
                /\ UNCHANGED <<documents, nchunks>>
    /\ UNCHANGED <<ctxVars, links, conv_status, retrieval, turnVars, replies, conv_user>>

\* process_document: update_document_status(document_id, 'processed')
MarkProcessed(d, ok) ==
    /\ uploads[d].pc = "processed"
    /\ IF ok
       THEN /\ documents' = [documents EXCEPT ![d].status = "processed"]
            /\ uploads' = [uploads EXCEPT ![d].pc = "link", ![d].idx = 0]
       ELSE /\ uploads' = [uploads EXCEPT ![d].pc = "failed", ![d].idx = 0]
            /\ UNCHANGED documents
    /\ UNCHANGED <<ctxVars, storeVars, retrieval, turnVars, replies, conv_user>>

\* update_document_status(document_id, 'failed') in the except clauses and
\* for a file without text; if it raises, upload_document answers 500
MarkFailed(d, ok) ==
    /\ uploads[d].pc = "failed"
    /\ IF ok
       THEN /\ documents' = [documents EXCEPT ![d].status = "failed"]
            /\ uploads' = [uploads EXCEPT ![d].pc = "link"]
       ELSE /\ uploads' = [uploads EXCEPT ![d] =
                              [NoUpload EXCEPT !.pc = "done",
                                  !.response = [status_code |-> 500, status |-> "none"]]]
            /\ UNCHANGED documents
    /\ UNCHANGED <<ctxVars, storeVars, retrieval, turnVars, replies, conv_user>>

\* upload_document from the choice of the conversation to the response: the
\* conversation named, else the latest active one of the user, is linked if
\* it is found and belongs to the user; the response is the row as it was
\* created
LinkUploaded(d) ==
    /\ uploads[d].pc = "link"
    /\ LET user == uploads[d].user
           named == uploads[d].conversation_id.some
                    \/ (conv_status = "active" /\ conv_user = user)
           link == /\ named
                   /\ get_conversation_by_id(conv_status)
                   /\ conv_user = user
                   /\ \A k \in 1..Len(links) : links[k] # d
       IN  links' = IF link THEN Append(links, d) ELSE links
    /\ uploads' = [uploads EXCEPT ![d] =
                      [NoUpload EXCEPT !.pc = "done",
                          !.response = [status_code |-> 201, status |-> "processing"]]]
    /\ UNCHANGED <<ctxVars, nchunks, conv_status, retrieval, turnVars>>
    /\ UNCHANGED <<replies, conv_user, documents>>

\* the conversation is deleted
DeleteLinked ==
    /\ conv_status = "active"
    /\ conv_status' = delete_conversation_update(conv_status)
    /\ UNCHANGED <<ctxVars, links, nchunks, retrieval, turnVars, extVars>>

NextDoc ==
    \/ \E user \in Users, mode \in {"open_chat", "grounded_chat"},
          document_ids \in {<<>>, <<1>>, <<2, 1>>} :
            CreateConversation(user, mode, document_ids)
    \/ \E d \in Docs, user \in Users, conversation_id \in {None, Some("c")},
          text \in Texts : UploadCreate(d, user, conversation_id, text)
    \/ \E d \in Docs, ok \in BOOLEAN : StoreChunk(d, ok)
    \/ \E d \in Docs, ok \in BOOLEAN : MarkProcessed(d, ok)
    \/ \E d \in Docs, ok \in BOOLEAN : MarkFailed(d, ok)
    \/ \E d \in Docs : LinkUploaded(d)
    \/ DeleteLinked

SpecDoc == InitDoc /\ [][NextDoc]_vars

\* C28: a document is linked to a conversation only if both belong to the
\* same user, whether upload_document or create_conversation made the link.
C28_LinksWithinOneUser ==
    \A k \in 1..Len(links) : documents[links[k]].user = conv_user

\* upload_document has answered 201 for document d
Uploaded(d) == uploads[d].pc = "done" /\ uploads[d].response.status_code = 201

\* C29: a document is created 'processing' and its status only moves from
\* there to 'processed' or to 'failed'; when upload_document returns with
\* success it is one of the two; it is 'processed' only if the chunks of its
\* text, at least one, are all stored, with the indices 0..n-1 in text order.
C29_DocumentStatus ==
    /\ [](\A d \in Docs :
            /\ Uploaded(d) => documents[d].status \in {"processed", "failed"}
            /\ documents[d].status = "processed" =>
                  LET chunks == chunk_text(documents[d].text)
                      rows == documents[d].chunks
                  IN  /\ Len(chunks) >= 1
                      /\ Len(rows) = Len(chunks)
                      /\ \A k \in 1..Len(rows) :
                            /\ rows[k].chunk_index = k - 1
                            /\ rows[k].chunk_text = chunks[k])
    /\ [][\A d \in Docs :
            documents'[d].status # documents[d].status =>
               \/ documents[d].status = "none" /\ documents'[d].status = "processing"
               \/ /\ documents[d].status = "processing"
                  /\ documents'[d].status \in {"processed", "failed"}]_vars

\* upload_document has returned for a processed document of two chunks, and
\* for a document that failed after its first chunk was stored
C29_Witness ==
    \E d, e \in Docs :
        /\ Uploaded(d) /\ documents[d].status = "processed"
        /\ Len(documents[d].chunks) = 2
        /\ Uploaded(e) /\ documents[e].status = "failed"
        /\ Len(documents[e].chunks) = 1

====
